---- MODULE Spec2Model ----
(***************************************************************************)
(* A model of lawang24/issue-metrics: write_to_markdown                    *)
(* (src/markdown_writer.py) and the per-author aggregation it calls,       *)
(* slice_pr_by_user (src/slice_by_user.py).                                *)
(*                                                                         *)
(* Python values are modelled as follows.                                  *)
(*   - An optional value is a tuple: None is <<>>, a present value v is    *)
(*     <<v>>.  This holds for authors, durations, timestamps, the search   *)
(*     query, the label list, label_metrics and the pull request.          *)
(*   - A timedelta is its total_seconds(), a natural number; a datetime is *)
(*     a natural number.                                                   *)
(*   - A title is a sequence of one-character strings.                     *)
(*   - The output file is the sequence of the pieces written to it, each   *)
(*     a record [kind, cells]; a cell is [field, val], where field names   *)
(*     the attribute the code writes into the cell.                        *)
(*   - An exception ends the run: pc = "error" and error names it.         *)
(***************************************************************************)
EXTENDS Integers, Sequences, FiniteSets, TLC

VARIABLES
    issues_with_metrics,   \* argument: None or <<sequence of items>>
    labels,                \* argument: None or <<sequence of label names>>
    search_query,          \* argument: None or <<string>>
    hide_label_metrics,    \* argument (BOOLEAN)
    env_vars,              \* get_env_vars(): the hide_* switches
    columns,               \* write_to_markdown local
    file,                  \* what has been written to issue_metrics.md
    pc,                    \* position in write_to_markdown / slice_pr_by_user
    error,                 \* the exception raised, "none" if none
    author_stats,          \* slice_pr_by_user local: key -> accumulator
    author_order,          \* insertion order of author_stats' keys
    i,                     \* slice_pr_by_user: index of the current issue
    pull_request,          \* slice_pr_by_user local: 0 = unbound, else the
                           \* index of the issue whose pull request it holds
    ready_for_review_at,   \* slice_pr_by_user local
    j,                     \* index of the current review of pull_request
    k                      \* write_to_markdown: index of the detail row

vars == <<issues_with_metrics, labels, search_query, hide_label_metrics,
          env_vars, columns, file, pc, error, author_stats, author_order,
          i, pull_request, ready_for_review_at, j, k>>

-----------------------------------------------------------------------------
(* Bounds of the model *)

MaxItems == 2
MaxReviews == 2
MaxTitleLen == 3

(* pull_request.reviews(number=50) *)
ReviewsLimit == 50

-----------------------------------------------------------------------------
(* Python values *)

None == <<>>
Some(x) == <<x>>

Range(s) == {s[n] : n \in 1..Len(s)}

Min(a, b) == IF a <= b THEN a ELSE b

\* bool(timedelta): a timedelta is true unless it is timedelta(0)
TimedeltaTruthy(d) == d # None /\ d[1] # 0

-----------------------------------------------------------------------------
(* src/slice_by_user.py *)

author_value ==
    [total_time_to_first_response |-> 0,
     total_time_to_close |-> 0,
     total_time_to_answer |-> 0,
     first_response_count |-> 0,
     close_count |-> 0,
     answer_count |-> 0,
     total_prs |-> 0,
     comments |-> 0]

\* ignore_comment with "<=" for "<" on the timing ground
ignore_commentLE(issue_user, comment_user, comment_created_at, ready) ==
    \/ comment_user.type = "Bot"
    \/ comment_user.login = issue_user.login
    \/ (ready # None /\ comment_created_at <= ready[1])

\* lines 111-125
ignore_comment(issue_user, comment_user, comment_created_at, ready) ==
    \/ comment_user.type = "Bot"
    \/ comment_user.login = issue_user.login
    \/ (ready # None /\ comment_created_at < ready[1])

\* Accumulate with line 55 moved under the "if" of line 43
AccumulateCountsOnlyTimed(stats, issue) ==
    LET author == issue.author
        s0 == IF author \in DOMAIN stats THEN stats
              ELSE stats @@ (author :> author_value)
        counted == TimedeltaTruthy(issue.time_to_first_response)
        s1 == IF counted
              THEN [s0 EXCEPT
                     ![author].total_time_to_first_response =
                         @ + issue.time_to_first_response[1],
                     ![author].first_response_count = @ + 1]
              ELSE s0
        s2 == IF TimedeltaTruthy(issue.time_to_close)
              THEN [s1 EXCEPT
                     ![author].total_time_to_close = @ + issue.time_to_close[1],
                     ![author].close_count = @ + 1]
              ELSE s1
        s3 == IF TimedeltaTruthy(issue.time_to_answer)
              THEN [s2 EXCEPT
                     ![author].total_time_to_answer = @ + issue.time_to_answer[1],
                     ![author].answer_count = @ + 1]
              ELSE s2
    IN  IF counted THEN [s3 EXCEPT ![author].total_prs = @ + 1] ELSE s3

\* lines 38-55: the accumulation of one issue into author_stats; the "if"s
\* test the truth value of the durations
Accumulate(stats, issue) ==
    LET author == issue.author
        s0 == IF author \in DOMAIN stats THEN stats
              ELSE stats @@ (author :> author_value)
        s1 == IF TimedeltaTruthy(issue.time_to_first_response)
              THEN [s0 EXCEPT
                     ![author].total_time_to_first_response =
                         @ + issue.time_to_first_response[1],
                     ![author].first_response_count = @ + 1]
              ELSE s0
        s2 == IF TimedeltaTruthy(issue.time_to_close)
              THEN [s1 EXCEPT
                     ![author].total_time_to_close = @ + issue.time_to_close[1],
                     ![author].close_count = @ + 1]
              ELSE s1
        s3 == IF TimedeltaTruthy(issue.time_to_answer)
              THEN [s2 EXCEPT
                     ![author].total_time_to_answer = @ + issue.time_to_answer[1],
                     ![author].answer_count = @ + 1]
              ELSE s2
    IN  [s3 EXCEPT ![author].total_prs = @ + 1]

\* line 63: pull_request.reviews(number=50)
Reviews(issue) ==
    LET all == issue.pr[1].reviews
    IN  SubSeq(all, 1, Min(Len(all), ReviewsLimit))

\* lines 97-98: the guards of the two divisions
FirstResponseGuard(stats) == stats.first_response_count # 0

\* the guard of line 98 testing total_prs instead
CloseGuardOnItems(stats) == stats.total_prs # 0

CloseGuard(stats) == stats.total_time_to_close # 0

\* timedelta(seconds=a // b): ZeroDivisionError when b = 0
FloorDiv(a, b) ==
    IF b = 0 THEN [kind |-> "ZeroDivisionError"]
    ELSE [kind |-> "timedelta", seconds |-> a \div b]

NoneCell == [kind |-> "None"]

\* lines 97-98: the two averages of one author
average_time_to_first_response(stats) ==
    IF FirstResponseGuard(stats)
    THEN FloorDiv(stats.total_time_to_first_response, stats.first_response_count)
    ELSE NoneCell

average_time_to_close(stats) ==
    IF CloseGuard(stats)
    THEN FloorDiv(stats.total_time_to_close, stats.close_count)
    ELSE NoneCell

\* lines 95-107: one row of the per-author table
UserRow(author, stats) ==
    [kind |-> "user_row",
     cells |-> << [field |-> "author", val |-> author],
                  [field |-> "average_time_to_first_response",
                   val |-> average_time_to_first_response(stats)],
                  [field |-> "average_time_to_close",
                   val |-> average_time_to_close(stats)],
                  [field |-> "total_prs", val |-> stats.total_prs],
                  [field |-> "comments", val |-> stats.comments] >>]

RowRaises(stats) ==
    \/ average_time_to_first_response(stats).kind = "ZeroDivisionError"
    \/ average_time_to_close(stats).kind = "ZeroDivisionError"

\* lines 77-92: the heading, the header row and the dividers
UserTableHead ==
    << [kind |-> "user_title", cells |-> <<>>],
       [kind |-> "user_header",
        cells |-> << "Author", "Avg Time to First Response On Their PRS",
                     "Avg Time to Close", "Total PRs",
                     "PR Review Comments Left" >>],
       [kind |-> "user_divider", cells |-> <<>>] >>

\* lines 95-107: the rows written before the first failing division (all of
\* them when none fails), in the insertion order of author_stats
RECURSIVE UserRows(_, _)
UserRows(order, stats) ==
    IF order = <<>> \/ RowRaises(stats[Head(order)]) THEN <<>>
    ELSE <<UserRow(Head(order), stats[Head(order)])>>
         \o UserRows(Tail(order), stats)

UserTableRaises(order, stats) ==
    \E n \in 1..Len(order) : RowRaises(stats[order[n]])

-----------------------------------------------------------------------------
(* src/markdown_writer.py *)

LabelColumn(label) ==
    CASE label = "bug" -> "Time spent in bug"
      [] label = "wip" -> "Time spent in wip"

\* bool(labels): None and the empty list are false
LabelsTruthy(ls) == ls # None /\ Len(ls[1]) > 0

RECURSIVE LabelColumns(_)
LabelColumns(ls) ==
    IF ls = <<>> THEN <<>>
    ELSE <<LabelColumn(Head(ls))>> \o LabelColumns(Tail(ls))

\* lines 35-72
get_non_hidden_columns(ls, env) ==
    <<"Title", "URL">>
    \o (IF ~env.hide_author THEN <<"Author">> ELSE <<>>)
    \o (IF ~env.hide_time_to_first_response
        THEN <<"Time to first response">> ELSE <<>>)
    \o (IF ~env.hide_time_to_close THEN <<"Time to close">> ELSE <<>>)
    \o (IF ~env.hide_time_to_answer THEN <<"Time to answer">> ELSE <<>>)
    \o (IF ~env.hide_label_metrics /\ LabelsTruthy(ls)
        THEN LabelColumns(ls[1]) ELSE <<>>)

\* line 113 without its test of the length
NoIssuesOnlyNone(iwm) == iwm = None

\* line 113: not issues_with_metrics or len(issues_with_metrics) == 0

NoIssues(iwm) == IF iwm = None THEN TRUE ELSE Len(iwm[1]) = 0

\* lines 116-119 and 176-180: the attribution line, then the search query
Footer(query) ==
    << [kind |-> "attribution", cells |-> <<>>] >>
    \o (IF query # None /\ query[1] # ""
        THEN << [kind |-> "search_query", cells |-> <<query[1]>>] >>
        ELSE <<>>)

\* lines 199-204: the condition of the table of averages; len(labels) raises
\* TypeError when it is reached with labels = None
HasTimeColumn(cols) ==
    \/ "Time to first response" \in Range(cols)
    \/ "Time to close" \in Range(cols)
    \/ "Time to answer" \in Range(cols)

OverallRaises(cols, ls, hide) == ~HasTimeColumn(cols) /\ ~hide /\ ls = None

\* lines 185-255, as the tables it writes
write_overall_metrics_tables(cols, ls, hide) ==
    (IF HasTimeColumn(cols) \/ (~hide /\ Len(ls[1]) > 0)
     THEN << [kind |-> "overall_table", cells |-> <<>>] >>
     ELSE <<>>)
    \o << [kind |-> "count_table", cells |-> <<>>] >>

\* line 158: the HTML entity of the vertical bar
Entity == <<"&", "#", "1", "2", "4", ";">>

\* replace() with a count of 1
RECURSIVE ReplaceFirstBar(_)
ReplaceFirstBar(t) ==
    IF t = <<>> THEN <<>>
    ELSE IF Head(t) = "|" THEN Entity \o Tail(t)
    ELSE <<Head(t)>> \o ReplaceFirstBar(Tail(t))

\* line 158: issue.title.replace("|", "&#124;")
RECURSIVE ReplaceBar(_)
ReplaceBar(t) ==
    IF t = <<>> THEN <<>>
    ELSE (IF Head(t) = "|" THEN Entity ELSE <<Head(t)>>) \o ReplaceBar(Tail(t))

\* line 160: str.strip()
Whitespace == {" ", "\t", "\n", "\r"}

RECURSIVE LStrip(_)
LStrip(t) ==
    IF t # <<>> /\ Head(t) \in Whitespace THEN LStrip(Tail(t)) ELSE t

RECURSIVE RStrip(_)
RStrip(t) ==
    IF t # <<>> /\ t[Len(t)] \in Whitespace
    THEN RStrip(SubSeq(t, 1, Len(t) - 1)) ELSE t

Strip(t) == RStrip(LStrip(t))

\* lines 158-160
EscapeTitle(t) == Strip(ReplaceBar(t))

\* lines 171-174: the label cells of one row
RECURSIVE LabelCells(_, _, _)
LabelCells(ls, issue, cols) ==
    IF ls = <<>> THEN <<>>
    ELSE (IF LabelColumn(Head(ls)) \in Range(cols)
          THEN << [field |-> LabelColumn(Head(ls)),
                   val |-> issue.label_metrics[1][Head(ls)]] >>
          ELSE <<>>)
         \o LabelCells(Tail(ls), issue, cols)

\* lines 162-175: one row of the detail table; issue.title is already escaped
DetailRow(issue, cols, ls) ==
    [kind |-> "detail_row",
     cells |->
        << [field |-> "Title", val |-> issue.title],
           [field |-> "URL", val |-> issue.html_url] >>
        \o (IF "Author" \in Range(cols)
            THEN << [field |-> "Author", val |-> issue.author] >> ELSE <<>>)
        \o (IF "Time to first response" \in Range(cols)
            THEN << [field |-> "Time to first response",
                     val |-> issue.time_to_first_response] >> ELSE <<>>)
        \o (IF "Time to close" \in Range(cols)
            THEN << [field |-> "Time to close",
                     val |-> issue.time_to_close] >> ELSE <<>>)
        \o (IF "Time to answer" \in Range(cols)
            THEN << [field |-> "Time to answer",
                     val |-> issue.time_to_answer] >> ELSE <<>>)
        \o (IF LabelsTruthy(ls) /\ issue.label_metrics # None
               /\ DOMAIN issue.label_metrics[1] # {}
            THEN LabelCells(ls[1], issue, cols) ELSE <<>>)]

-----------------------------------------------------------------------------
(* The inputs *)

SeqsUpTo(S, n) == UNION {[1..m -> S] : m \in 0..n}

AllFalse ==
    [hide_author |-> FALSE,
     hide_time_to_first_response |-> FALSE,
     hide_time_to_close |-> FALSE,
     hide_time_to_answer |-> FALSE,
     hide_label_metrics |-> FALSE]

EnvVars ==
    [hide_author : BOOLEAN,
     hide_time_to_first_response : BOOLEAN,
     hide_time_to_close : BOOLEAN,
     hide_time_to_answer : BOOLEAN,
     hide_label_metrics : BOOLEAN]

Human(login) == [login |-> login, type |-> "User"]

CommentUsers ==
    {Human("alice"), Human("bob"), Human("carol"),
     [login |-> "dependabot", type |-> "Bot"]}

Times == {1, 2, 3}

ReviewComments == [user : CommentUsers, submitted_at : Times]

\* a pull request with no review
QuietPR == Some([reviews |-> <<>>, ready_for_review_at |-> None])

PullRequests ==
    {None} \cup
    {Some([reviews |-> r, ready_for_review_at |-> t]) :
        r \in SeqsUpTo(ReviewComments, MaxReviews), t \in {None, Some(2)}}

Item(author, login, first, close, answer, title, metrics, pr) ==
    [title |-> title,
     html_url |-> "https://github.com/o/r/pull/1",
     author |-> author,
     time_to_first_response |-> first,
     time_to_close |-> close,
     time_to_answer |-> answer,
     label_metrics |-> metrics,
     user |-> [login |-> login],
     pr |-> pr]

PlainItem == Item(Some("alice"), "alice", Some(1), None, None, <<"a">>, None, QuietPR)

\* items that differ in their author and their durations
AccumItems ==
    {Item(Some(a), a, f, c, None, <<"a">>, None, QuietPR) :
        a \in {"alice", "bob"}, f \in {None, Some(0), Some(1), Some(2)},
        c \in {None, Some(0), Some(3)}}
    \cup
    {Item(None, "ghost", f, None, n, <<"a">>, None, QuietPR) :
        f \in {None, Some(2)}, n \in {None, Some(0), Some(5)}}

\* items that differ in their pull request and its reviews
ReviewItems ==
    {Item(Some("alice"), "alice", Some(1), None, None, <<"a">>, None, pr) :
        pr \in PullRequests}

\* two issues that are no pull request, and a pull request nobody reviewed
PlainReviewItems ==
    {Item(Some("alice"), "alice", Some(1), None, None, <<"a">>, None, None),
     Item(Some("bob"), "bob", Some(1), None, None, <<"a">>, None, None),
     Item(Some("bob"), "bob", Some(1), None, None, <<"a">>, None, QuietPR)}

\* items that differ in their title
TitleChars == {"|", " ", "a"}

Titles == SeqsUpTo(TitleChars, MaxTitleLen)

TitleItems ==
    {Item(Some("alice"), "alice", Some(1), None, None, t, None, QuietPR) :
        t \in Titles}

\* items that differ in their label metrics
LabelLists == {None, Some(<<>>), Some(<<"bug">>), Some(<<"bug", "wip">>)}

LabelItems ==
    {Item(Some("alice"), "alice", Some(1), Some(3), None, <<"a">>, m, QuietPR) :
        m \in {None, Some([l \in {"bug", "wip"} |-> Some(4)])}}

\* s with x inserted at position f
InsertAt(s, f, x) == SubSeq(s, 1, f - 1) \o <<x>> \o SubSeq(s, f, Len(s))

\* issues_with_metrics is a list of 1..MaxItems items, one of them from
\* Focus, the others from Rest
FocusList(Focus, Rest) ==
    \E n \in 1..MaxItems : \E f \in 1..n :
        \E x \in Focus : \E r \in [1..(n - 1) -> Rest] :
            issues_with_metrics = Some(InsertAt(r, f, x))

\* issues_with_metrics is None or a list of 0..MaxItems items from S
AnyList(S) ==
    \/ issues_with_metrics = None
    \/ \E n \in 0..MaxItems : \E s \in [1..n -> S] :
           issues_with_metrics = Some(s)

InitLocals ==
    /\ columns = <<>>
    /\ file = <<>>
    /\ pc = "start"
    /\ error = "none"
    /\ author_stats = <<>>
    /\ author_order = <<>>
    /\ i = 1
    /\ pull_request = 0
    /\ ready_for_review_at = None
    /\ j = 1
    /\ k = 1

PlainArguments ==
    /\ labels = Some(<<>>)
    /\ search_query = None
    /\ hide_label_metrics = FALSE
    /\ env_vars = AllFalse

\* collections whose items differ in author and durations; None and the
\* empty collection are among them
InitAccum ==
    /\ AnyList(AccumItems)
    /\ PlainArguments

\* collections whose items differ in their pull requests and reviews
InitReviews ==
    /\ FocusList(ReviewItems, PlainReviewItems)
    /\ PlainArguments

\* collections whose items differ in their titles
InitTitles ==
    /\ FocusList(TitleItems, {PlainItem})
    /\ PlainArguments

\* calls that differ in the columns, the labels and the search query
InitColumns ==
    /\ AnyList(LabelItems)
    /\ labels \in LabelLists
    /\ search_query \in {None, Some(""), Some("is:pr")}
    /\ hide_label_metrics \in BOOLEAN
    /\ env_vars \in EnvVars

Init ==
    /\ InitLocals
    /\ (InitAccum \/ InitReviews \/ InitTitles \/ InitColumns)

-----------------------------------------------------------------------------
(* The steps of write_to_markdown *)

Issues == issues_with_metrics[1]

Piece(kind) == [kind |-> kind, cells |-> <<>>]

Raise(exception) ==
    /\ pc' = "error"
    /\ error' = exception

\* markdown_writer.py lines 108-120: the collection is empty
NoIssuesFound ==
    /\ pc = "start"
    /\ NoIssues(issues_with_metrics)
    /\ columns' = get_non_hidden_columns(labels, env_vars)
    /\ file' = <<Piece("title"), Piece("no_issues")>> \o Footer(search_query)
    /\ pc' = "done"
    /\ UNCHANGED <<issues_with_metrics, labels, search_query,
                   hide_label_metrics, env_vars, error, author_stats,
                   author_order, i, pull_request, ready_for_review_at, j, k>>

\* markdown_writer.py lines 108-135: the heading and the overall tables
WriteOverall ==
    /\ pc = "start"
    /\ ~NoIssues(issues_with_metrics)
    /\ columns' = get_non_hidden_columns(labels, env_vars)
    /\ IF OverallRaises(columns', labels, hide_label_metrics)
       THEN /\ file' = <<Piece("title")>>
            /\ Raise("TypeError")
       ELSE /\ file' = <<Piece("title")>>
                       \o write_overall_metrics_tables(
                              columns', labels, hide_label_metrics)
            /\ pc' = "slice"
            /\ error' = error
    /\ UNCHANGED <<issues_with_metrics, labels, search_query,
                   hide_label_metrics, env_vars, author_stats,
                   author_order, i, pull_request, ready_for_review_at, j, k>>

\* slice_by_user.py lines 36-63: one issue, up to the call of reviews().
\* pull_request and ready_for_review_at are assigned only when the issue has
\* a pull request; line 62 reads pull_request whether it was assigned or not.
SliceIssue ==
    /\ pc = "slice"
    /\ i <= Len(Issues)
    /\ LET issue == Issues[i]
       IN  /\ author_stats' = Accumulate(author_stats, issue)
           /\ author_order' = IF issue.author \in DOMAIN author_stats
                              THEN author_order
                              ELSE Append(author_order, issue.author)
           /\ pull_request' = IF issue.pr # None THEN i ELSE pull_request
           /\ ready_for_review_at' =
                 IF issue.pr # None THEN issue.pr[1].ready_for_review_at
                 ELSE ready_for_review_at
    /\ IF pull_request' = 0
       THEN Raise("UnboundLocalError") /\ j' = j
       ELSE pc' = "reviews" /\ error' = error /\ j' = 1
    /\ UNCHANGED <<issues_with_metrics, labels, search_query,
                   hide_label_metrics, env_vars, columns, file, i, k>>

\* slice_by_user.py lines 65-74: one review of pull_request.  Line 74 indexes
\* author, which is issue.author (a str or None), with the reviewer: TypeError.
SliceReview ==
    /\ pc = "reviews"
    /\ j <= Len(Reviews(Issues[pull_request]))
    /\ LET review_comment == Reviews(Issues[pull_request])[j]
       IN  IF ignore_comment(Issues[i].user, review_comment.user,
                             review_comment.submitted_at, ready_for_review_at)
           THEN pc' = pc /\ error' = error /\ j' = j + 1
           ELSE Raise("TypeError") /\ j' = j
    /\ UNCHANGED <<issues_with_metrics, labels, search_query,
                   hide_label_metrics, env_vars, columns, file, author_stats,
                   author_order, i, pull_request, ready_for_review_at, k>>

\* slice_by_user.py line 65: the reviews are exhausted, on to the next issue
SliceReviewsDone ==
    /\ pc = "reviews"
    /\ j > Len(Reviews(Issues[pull_request]))
    /\ i' = i + 1
    /\ pc' = "slice"
    /\ UNCHANGED <<issues_with_metrics, labels, search_query,
                   hide_label_metrics, env_vars, columns, file, error,
                   author_stats, author_order, pull_request,
                   ready_for_review_at, j, k>>

\* slice_by_user.py lines 77-107: the per-author table
SliceWriteTable ==
    /\ pc = "slice"
    /\ i > Len(Issues)
    /\ file' = file \o UserTableHead \o UserRows(author_order, author_stats)
    /\ IF UserTableRaises(author_order, author_stats)
       THEN Raise("ZeroDivisionError")
       ELSE pc' = "detail_header" /\ error' = error
    /\ UNCHANGED <<issues_with_metrics, labels, search_query,
                   hide_label_metrics, env_vars, columns, author_stats,
                   author_order, i, pull_request, ready_for_review_at, j, k>>

\* markdown_writer.py lines 139-152: the heading, header row and dividers
WriteDetailHeader ==
    /\ pc = "detail_header"
    /\ file' = file \o << Piece("detail_title"),
                          [kind |-> "detail_header", cells |-> columns],
                          [kind |-> "detail_divider",
                           cells |-> [n \in 1..Len(columns) |-> "---"]] >>
    /\ pc' = "detail"
    /\ UNCHANGED <<issues_with_metrics, labels, search_query,
                   hide_label_metrics, env_vars, columns, error, author_stats,
                   author_order, i, pull_request, ready_for_review_at, j, k>>

\* markdown_writer.py lines 155-175: one row; issue.title is overwritten
WriteDetailRow ==
    /\ pc = "detail"
    /\ k <= Len(Issues)
    /\ issues_with_metrics' =
          Some([Issues EXCEPT ![k].title = EscapeTitle(@)])
    /\ file' = Append(file, DetailRow(issues_with_metrics'[1][k], columns, labels))
    /\ k' = k + 1
    /\ UNCHANGED <<labels, search_query, hide_label_metrics, env_vars,
                   columns, pc, error, author_stats, author_order, i,
                   pull_request, ready_for_review_at, j>>

\* markdown_writer.py lines 176-180
WriteFooter ==
    /\ pc = "detail"
    /\ k > Len(Issues)
    /\ file' = file \o Footer(search_query)
    /\ pc' = "done"
    /\ UNCHANGED <<issues_with_metrics, labels, search_query,
                   hide_label_metrics, env_vars, columns, error, author_stats,
                   author_order, i, pull_request, ready_for_review_at, j, k>>

Next ==
    \/ NoIssuesFound
    \/ WriteOverall
    \/ SliceIssue
    \/ SliceReview
    \/ SliceReviewsDone
    \/ SliceWriteTable
    \/ WriteDetailHeader
    \/ WriteDetailRow
    \/ WriteFooter

Spec == Init /\ [][Next]_vars

-----------------------------------------------------------------------------
(* Properties *)

RECURSIVE SumOver(_, _)
SumOver(S, f) ==
    IF S = {} THEN 0
    ELSE LET x == CHOOSE x \in S : TRUE
         IN  f[x] + SumOver(S \ {x}, f)

HasIssues == issues_with_metrics # None /\ issues_with_metrics # Some(<<>>)

\* the loop of slice_pr_by_user has processed every item
SliceLoopDone ==
    /\ HasIssues
    /\ \/ pc = "slice" /\ i > Len(Issues)
       \/ pc \in {"detail_header", "detail", "done"}

\* slice_pr_by_user raised: the last piece written is the count table or a
\* piece of the per-author table
SliceFailed ==
    /\ pc = "error"
    /\ file[Len(file)].kind \in {"count_table", "user_row", "user_divider"}

\* C1: when slice_pr_by_user has processed all items, the sum of total_prs
\* over the authors of author_stats is the number of items of the collection.
C1_AttributionConservation ==
    SliceLoopDone =>
        SumOver(DOMAIN author_stats,
                [a \in DOMAIN author_stats |-> author_stats[a].total_prs])
          = Len(Issues)

C1_Witness ==
    /\ pc = "done"
    /\ HasIssues
    /\ Len(Issues) >= 2
    /\ Cardinality(DOMAIN author_stats) >= 2

\* C2: a qualifying review comment (one ignore_comment does not ignore) adds
\* exactly one to the 'comments' count of the comment's author, creating the
\* accumulator if the commenter authored no item, leaves the count of the
\* item's author unchanged, and raises nothing.
C2_CommentAttribution ==
    [][ (/\ pc = "reviews"
         /\ j <= Len(Reviews(Issues[pull_request]))
         /\ ~ignore_comment(Issues[i].user,
                            Reviews(Issues[pull_request])[j].user,
                            Reviews(Issues[pull_request])[j].submitted_at,
                            ready_for_review_at))
        =>
        LET commenter == Some(Reviews(Issues[pull_request])[j].user.login)
            before == IF commenter \in DOMAIN author_stats
                      THEN author_stats[commenter].comments ELSE 0
        IN  /\ error' = "none"
            /\ commenter \in DOMAIN author_stats'
            /\ author_stats'[commenter].comments = before + 1
            /\ (Issues[i].author # commenter =>
                  author_stats'[Issues[i].author].comments
                    = author_stats[Issues[i].author].comments)
      ]_vars

\* C3: an item with no pull request causes no failure and no review is
\* examined for it, as the first item and after an item with a pull request.
C3_NoPullRequest ==
    (HasIssues /\ i <= Len(Issues) /\ Issues[i].pr = None) =>
        /\ ~SliceFailed
        /\ (pc = "reviews" => Reviews(Issues[pull_request]) = <<>>)

\* C4: no average is computed by a division by zero; a cell of the per-author
\* table is "None" when the metric's count is zero, and otherwise it is the
\* floor of the metric's total divided by its count, the count being nonzero.
IsFloor(cell, total, count) ==
    /\ cell.kind = "timedelta"
    /\ count # 0
    /\ cell.seconds * count <= total
    /\ total < (cell.seconds + 1) * count

UserRowsWritten == {n \in 1..Len(file) : file[n].kind = "user_row"}

C4_DivisionGuard ==
    /\ error # "ZeroDivisionError"
    /\ \A n \in UserRowsWritten :
          LET stats == author_stats[file[n].cells[1].val]
              first == file[n].cells[2].val
              close == file[n].cells[3].val
          IN  /\ stats.first_response_count = 0 => first.kind = "None"
              /\ stats.close_count = 0 => close.kind = "None"
              /\ first.kind # "None" =>
                    IsFloor(first, stats.total_time_to_first_response,
                            stats.first_response_count)
              /\ close.kind # "None" =>
                    IsFloor(close, stats.total_time_to_close, stats.close_count)

C4_Witness ==
    \E n \in UserRowsWritten :
        LET stats == author_stats[file[n].cells[1].val]
            first == file[n].cells[2].val
            close == file[n].cells[3].val
        IN  /\ stats.close_count = 0
            /\ stats.total_prs > 0
            /\ close.kind = "None"
            /\ first.kind = "timedelta"
            /\ first.seconds * stats.first_response_count
                 < stats.total_time_to_first_response

\* C5: for an empty collection (None or the empty list) the finished output
\* is the heading, the "no issues found" notice and the attribution line,
\* plus the search query line if a query was given; no table is written and
\* slice_pr_by_user is not called.
Kinds(f) == [n \in 1..Len(f) |-> f[n].kind]

C6_MalformedItemFailsFast == None \notin DOMAIN author_stats

\* C7: the title cell of a detail row is the item's title with every '|'
\* replaced by '&#124;' and the leading and trailing whitespace removed; it
\* holds no '|'.
RECURSIVE Unescape(_)
Unescape(t) ==
    IF t = <<>> THEN <<>>
    ELSE IF Len(t) >= Len(Entity) /\ SubSeq(t, 1, Len(Entity)) = Entity
         THEN <<"|">> \o Unescape(SubSeq(t, Len(Entity) + 1, Len(t)))
         ELSE <<Head(t)>> \o Unescape(Tail(t))

IsTrimOf(inner, t) ==
    \E a \in 0..Len(t) : \E b \in 0..(Len(t) - a) :
        /\ \A n \in 1..a : t[n] \in Whitespace
        /\ \A n \in (Len(t) - b + 1)..Len(t) : t[n] \in Whitespace
        /\ inner = SubSeq(t, a + 1, Len(t) - b)
        /\ (inner # <<>> =>
              inner[1] \notin Whitespace /\ inner[Len(inner)] \notin Whitespace)

C7_Escaping ==
    [][ (pc = "detail" /\ k <= Len(Issues)) =>
        LET cell == file'[Len(file')].cells[1].val
        IN  /\ file'[Len(file')].kind = "detail_row"
            /\ "|" \notin Range(cell)
            /\ IsTrimOf(Unescape(cell), Issues[k].title)
      ]_vars

C7_Witness ==
    \E n \in 1..Len(file) :
        /\ file[n].kind = "detail_row"
        /\ file[n].cells[1].val = Entity \o <<"a">> \o Entity

\* C8: every row of the detail table has exactly one cell per column of the
\* header, in the header's order.
C8_DetailRowMatchesHeader ==
    \A n \in 1..Len(file) :
        file[n].kind = "detail_row" =>
            [m \in 1..Len(file[n].cells) |-> file[n].cells[m].field] = columns

\* C9: when slice_pr_by_user has processed the items, each metric's count of
\* an author is the number of the author's items whose duration is not None
\* (timedelta(0) included), the metric's total is the sum of those durations,
\* and no count exceeds total_prs.
ItemsWith(a, metric) ==
    {m \in 1..Len(Issues) : Issues[m].author = a /\ Issues[m][metric] # None}

TotalOf(a, metric) ==
    SumOver(ItemsWith(a, metric),
            [m \in ItemsWith(a, metric) |-> Issues[m][metric][1]])

C9_PerAuthorAccumulation ==
    SliceLoopDone =>
        \A a \in DOMAIN author_stats :
            LET stats == author_stats[a]
            IN  /\ stats.first_response_count
                     = Cardinality(ItemsWith(a, "time_to_first_response"))
                /\ stats.close_count = Cardinality(ItemsWith(a, "time_to_close"))
                /\ stats.answer_count
                     = Cardinality(ItemsWith(a, "time_to_answer"))
                /\ stats.total_time_to_first_response
                     = TotalOf(a, "time_to_first_response")
                /\ stats.total_time_to_close = TotalOf(a, "time_to_close")
                /\ stats.total_time_to_answer = TotalOf(a, "time_to_answer")
                /\ stats.first_response_count <= stats.total_prs
                /\ stats.close_count <= stats.total_prs
                /\ stats.answer_count <= stats.total_prs

\* C10: the loop over the reviews skips a review (ignore_comment is true) if
\* and only if its author is a Bot, or its author's login is the item
\* author's login, or ready_for_review_at is known and the review was
\* submitted strictly before it.
Disqualified(issue, review, ready) ==
    \/ review.user.type = "Bot"
    \/ review.user.login = issue.user.login
    \/ (ready # None /\ review.submitted_at < ready[1])

C10_QualifyingRule ==
    [][ (pc = "reviews" /\ j <= Len(Reviews(Issues[pull_request]))) =>
        (Disqualified(Issues[i], Reviews(Issues[pull_request])[j],
                      ready_for_review_at)
           <=> (pc' = "reviews" /\ j' = j + 1 /\ error' = "none"))
      ]_vars

\* a review by another human, submitted exactly at ready_for_review_at, was
\* not skipped
C10_Witness ==
    /\ SliceFailed
    /\ error = "TypeError"
    /\ pull_request = i
    /\ ready_for_review_at # None
    /\ LET review == Reviews(Issues[pull_request])[j]
       IN  /\ review.submitted_at = ready_for_review_at[1]
           /\ review.user.type = "User"
           /\ review.user.login # Issues[i].user.login

====
